---- MODULE Spec2Model ----
(***************************************************************************)
(* ansible-parallel: run several ansible-playbook processes concurrently   *)
(* behind an asyncio.Semaphore, classify their output chunk by chunk and   *)
(* show it through one printer task (src/ansible_parallel.py).             *)
(*                                                                         *)
(* Text is modelled as a sequence of symbols.  A symbol is either one of   *)
(* the keywords the program looks for ("TASK", "ok:", "PLAY RECAP", ...),  *)
(* a space, the newline, or "x" for any other text.  A keyword never       *)
(* contains a newline and none is a substring of another, so "k in s" is   *)
(* membership of the symbol k in the sequence s.                           *)
(***************************************************************************)
EXTENDS Integers, Sequences, FiniteSets, TLC

(* ------------------------------ bounds --------------------------------- *)
\* number of playbooks given on the command line
NumJobs == 2
\* largest value of ANSIBLE_PARALLEL_MAX_PLAYBOOKS explored
MaxK == 2
\* most lines the ansible-playbook processes of one run print, all together
MaxLines == 1
\* longest chunk handed to prepare_chunk on its own
MaxChunkLen == 4
\* most chunks the processes of one run print, all together, when whole chunks
\* are read at a time
MaxChunks == 2
\* most lines a process prints when one reader is looked at on its own
MaxReaderLines == 4
\* widest terminal handed to truncate on its own
MaxColumns == 9
\* longest playbook name handed to truncate on its own
MaxNameLen == 2
\* longest string handed to truncate on its own
MaxStringLen == 4

(* ------------------------------ text ----------------------------------- *)
NL == "\n"
SP == " "
Keywords ==
    {"PLAY RECAP", "ok:", "changed:", "failed:", "fatal:", "unreachable:",
     "TASK", "ERROR!"}
Symbols == Keywords \cup {NL, SP, "x"}
Whitespace == {NL, SP}

\* k in s
Contains(s, k) == \E i \in 1..Len(s) : s[i] = k

\* s.startswith(k)
StartsWith(s, k) == Len(s) >= 1 /\ s[1] = k

\* s.strip()
Strip(s) ==
    LET keep == {i \in 1..Len(s) : s[i] \notin Whitespace}
    IN  IF keep = {} THEN <<>>
        ELSE LET lo == CHOOSE i \in keep : \A k \in keep : i <= k
                 hi == CHOOSE i \in keep : \A k \in keep : k <= i
             IN  SubSeq(s, lo, hi)

\* s.split(sep): the pieces between the separators, at least one piece
RECURSIVE Split(_, _)
Split(s, sep) ==
    IF ~Contains(s, sep) THEN <<s>>
    ELSE LET i == CHOOSE k \in 1..Len(s) :
                      s[k] = sep /\ \A m \in 1..(k - 1) : s[m] # sep
         IN  <<SubSeq(s, 1, i - 1)>> \o Split(SubSeq(s, i + 1, Len(s)), sep)

\* "".join(parts)
RECURSIVE Join(_)
Join(parts) == IF parts = <<>> THEN <<>> ELSE Head(parts) \o Join(Tail(parts))

\* str(n) for an integer, one symbol per character
Digit(d) == <<"0", "1", "2", "3", "4", "5", "6", "7", "8", "9">>[d + 1]
RECURSIVE Digits(_)
Digits(n) == IF n < 10 THEN <<Digit(n)>> ELSE Digits(n \div 10) \o <<Digit(n % 10)>>
Str(n) == IF n < 0 THEN <<"-">> \o Digits(0 - n) ELSE Digits(n)

(* --------------------------- prepare_chunk ----------------------------- *)
\* rules 6 to 8: what a chunk is when no rule on its second line applies
UnmarkedKind(chunk) ==
    IF StartsWith(chunk, "TASK") THEN "TASK"
    ELSE IF Contains(chunk, "ERROR!") THEN "ERROR"
    ELSE "MSG"

\* prepare_chunk with the test of "PLAY RECAP" put after the tests of the
\* second line
prepare_chunk_recap_last(playbook, chunk) ==
    LET lines == Split(Strip(chunk), NL)
    IN  IF Len(lines) >= 2 THEN
            IF Contains(lines[2], "ok:") THEN <<"OK", playbook, chunk>>
            ELSE IF Contains(lines[2], "changed:") THEN <<"CHANGED", playbook, chunk>>
            ELSE IF Contains(lines[2], "failed:") \/ Contains(lines[2], "fatal:")
                THEN <<"ERROR", playbook, chunk>>
            ELSE IF Contains(lines[2], "unreachable:")
                THEN <<"UNREACHABLE", playbook, chunk>>
            ELSE IF Contains(chunk, "PLAY RECAP") THEN <<"RECAP", playbook, chunk>>
            ELSE <<UnmarkedKind(chunk), playbook, chunk>>
        ELSE <<UnmarkedKind(chunk), playbook, chunk>>

\* prepare_chunk with the tests of "failed:"/"fatal:" put before those of "ok:"
\* and "changed:"
prepare_chunk_error_first(playbook, chunk) ==
    LET lines == Split(Strip(chunk), NL)
    IN  IF Len(lines) >= 2 THEN
            IF Contains(chunk, "PLAY RECAP") THEN <<"RECAP", playbook, chunk>>
            ELSE IF Contains(lines[2], "failed:") \/ Contains(lines[2], "fatal:")
                THEN <<"ERROR", playbook, chunk>>
            ELSE IF Contains(lines[2], "ok:") THEN <<"OK", playbook, chunk>>
            ELSE IF Contains(lines[2], "changed:") THEN <<"CHANGED", playbook, chunk>>
            ELSE IF Contains(lines[2], "unreachable:")
                THEN <<"UNREACHABLE", playbook, chunk>>
            ELSE <<UnmarkedKind(chunk), playbook, chunk>>
        ELSE <<UnmarkedKind(chunk), playbook, chunk>>

\* prepare_chunk with the keywords looked for in the last line, whatever the
\* number of lines
prepare_chunk_last_line(playbook, chunk) ==
    LET lines == Split(Strip(chunk), NL)
        last == lines[Len(lines)]
    IN  IF Contains(chunk, "PLAY RECAP") THEN <<"RECAP", playbook, chunk>>
        ELSE IF Contains(last, "ok:") THEN <<"OK", playbook, chunk>>
        ELSE IF Contains(last, "changed:") THEN <<"CHANGED", playbook, chunk>>
        ELSE IF Contains(last, "failed:") \/ Contains(last, "fatal:")
            THEN <<"ERROR", playbook, chunk>>
        ELSE IF Contains(last, "unreachable:")
            THEN <<"UNREACHABLE", playbook, chunk>>
        ELSE <<UnmarkedKind(chunk), playbook, chunk>>

\* The event tuple (msgtype, playbook, msg) of one chunk of output.
prepare_chunk(playbook, chunk) ==
    LET lines == Split(Strip(chunk), NL)
        rest ==
            IF StartsWith(chunk, "TASK") THEN <<"TASK", playbook, chunk>>
            ELSE IF Contains(chunk, "ERROR!") THEN <<"ERROR", playbook, chunk>>
            ELSE <<"MSG", playbook, chunk>>
    IN  IF Len(lines) >= 2 THEN
            IF Contains(chunk, "PLAY RECAP") THEN <<"RECAP", playbook, chunk>>
            ELSE IF Contains(lines[2], "ok:") THEN <<"OK", playbook, chunk>>
            ELSE IF Contains(lines[2], "changed:") THEN <<"CHANGED", playbook, chunk>>
            ELSE IF Contains(lines[2], "failed:") \/ Contains(lines[2], "fatal:")
                THEN <<"ERROR", playbook, chunk>>
            ELSE IF Contains(lines[2], "unreachable:")
                THEN <<"UNREACHABLE", playbook, chunk>>
            ELSE rest
        ELSE rest

(* ------------------------------ truncate ------------------------------- *)
\* the one-character ellipsis
Ellipsis == "..."
\* string[:n], n possibly negative
SliceTo(string, n) ==
    IF n >= 0 THEN SubSeq(string, 1, IF n < Len(string) THEN n ELSE Len(string))
    ELSE SubSeq(string, 1, Len(string) + n)

\* truncate cutting at max_width instead of max_width - 1
truncate_keeps_width(string, max_width) ==
    IF Len(string) <= max_width THEN string
    ELSE SliceTo(string, max_width) \o <<Ellipsis>>

truncate(string, max_width) ==
    IF Len(string) <= max_width THEN string
    ELSE SliceTo(string, max_width - 1) \o <<Ellipsis>>

\* the width show_progression hands to truncate
AvailableWidth(columns, longest) == columns - longest - 4

(* ------------------------------- state --------------------------------- *)
VARIABLES
    maxPlaybooks,       \* ANSIBLE_PARALLEL_MAX_PLAYBOOKS, the semaphore's size
    semValue,           \* free permits of the semaphore
    semWaiters,         \* jobs waiting for a permit, first come first
    pc,                 \* where each playbook task stands
    task,               \* run_playbook: the lines of the chunk being read
    stdout,             \* the lines each process has printed and the reader has read
    returncode,         \* process.returncode of the processes waited for
    retval,             \* what the playbook tasks that returned have returned
    results,            \* results_queue
    sent,               \* per job, the events it has put on results_queue
    mainPc,             \* where amain stands
    exitValue,          \* what amain returned
    printerPc,          \* where show_progression stands
    cursorHidden,       \* the terminal's cursor is hidden
    starts, ends,       \* show_progression: perf_counter at START / DONE
    recaps,             \* show_progression: (playbook, chunks) in insertion order
    currently_running,  \* show_progression
    frameno,            \* show_progression
    lanes,              \* the text shown after each playbook's name
    cursorRow,          \* the terminal's cursor: 0 is the first playbook's line
    cursorCol,          \* the terminal's cursor: 0 is the left edge
    now,                \* perf_counter
    report,             \* the lines of the final report
    chunkIn,            \* a chunk handed to prepare_chunk on its own
    classified,         \* the msgtype prepare_chunk gave chunkIn
    stringIn,           \* a string handed to truncate on its own
    columnsIn,          \* the terminal's width when truncate is run on its own
    nameLenIn,          \* the longest name's length when truncate is run on its own
    truncated,          \* what truncate made of stringIn, in a one-element list
    lineLimit           \* the most lines the processes of this run print

engineVars ==
    <<maxPlaybooks, semValue, semWaiters, pc, task, stdout, returncode, retval,
      results, sent, mainPc, exitValue>>
printerVars ==
    <<printerPc, cursorHidden, starts, ends, recaps, currently_running, frameno,
      lanes, cursorRow, cursorCol, now, report>>
classifierVars == <<chunkIn, classified>>
truncateVars == <<stringIn, columnsIn, nameLenIn, truncated>>
\* what the engine and the printer never touch
sideVars == <<classifierVars, truncateVars, lineLimit>>
vars == <<engineVars, printerVars, sideVars>>

Jobs == 1..NumJobs
\* the item that ends the queue (None in the program): the one falsy item
Sentinel == <<>>
\* the keys of a dict
Keys(d) == DOMAIN d
EmptyDict == [k \in {} |-> 0]

\* what a process can print on one readline()
OutputLines == {<<NL>>, <<"TASK", NL>>, <<"ERROR!", NL>>}
\* what process.returncode can be: 0, an exit status, minus a signal number
RetCodes == {0 - 1, 0, 1}
\* the terminal's width
Columns == 80
\* the playbooks' names: "x1", "x2", ...
Playbook(j) == <<"x">> \o Str(j)
RECURSIVE MaxLen(_)
MaxLen(S) ==
    IF S = {} THEN 0
    ELSE LET j == CHOOSE k \in S : TRUE
             m == MaxLen(S \ {j})
         IN  IF Len(Playbook(j)) > m THEN Len(Playbook(j)) ELSE m
longest_name == MaxLen(Jobs)

RECURSIVE SumSeq(_)
SumSeq(s) == IF s = <<>> THEN 0 ELSE Head(s) + SumSeq(Tail(s))

\* a playbook task holds a permit of the semaphore in these places
Holding == {"woken", "spawn", "read", "wait"}
\* a playbook task is over in these places
Ended == {"returned", "raised", "cancelled"}

(* ------------------------------- Init ---------------------------------- *)
\* amain has parsed its arguments, created the queue, the printer task, the
\* semaphore (of size K) and one task per playbook, and waits in gather().
EngineInit(K) ==
    /\ maxPlaybooks = K
    /\ semValue = K
    /\ semWaiters = <<>>
    /\ pc = [j \in Jobs |-> "init"]
    /\ task = [j \in Jobs |-> <<>>]
    /\ stdout = [j \in Jobs |-> <<>>]
    /\ returncode = EmptyDict
    /\ retval = EmptyDict
    /\ results = <<>>
    /\ sent = [j \in Jobs |-> <<>>]
    /\ mainPc = "gather"
    /\ exitValue = 0

\* The printer task, created first, has run up to its first results.get(): the
\* cursor is hidden and one line per playbook is printed.
PrinterInit ==
    /\ printerPc = "running"
    /\ cursorHidden = TRUE
    /\ starts = EmptyDict
    /\ ends = EmptyDict
    /\ recaps = <<>>
    /\ currently_running = <<>>
    /\ frameno = 0
    /\ lanes = [j \in Jobs |-> <<>>]
    /\ cursorRow = NumJobs
    /\ cursorCol = 0
    /\ now = 0
    /\ report = <<>>

\* nothing is handed to prepare_chunk or truncate on their own
ClassifierIdle == chunkIn = <<>> /\ classified = "-"
TruncateIdle ==
    stringIn = <<>> /\ columnsIn = Columns /\ nameLenIn = longest_name
        /\ truncated = <<>>

Init ==
    /\ \E K \in 1..MaxK : EngineInit(K)
    /\ PrinterInit
    /\ ClassifierIdle
    /\ TruncateIdle
    /\ lineLimit = MaxLines

\* The loop runs the tasks for amain until amain has raised; from then on
\* asyncio.run only lets them take their cancellation.
Serving == mainPc # "raised"

\* The playbook tasks, created together, all run for the first time in the same
\* turn of the loop, before any of them or the printer is run again.
AllEntered == \A j \in Jobs : pc[j] # "init"

(* --------------------- playbook_wrapper, run_playbook ------------------ *)
\* results.put(item) by job j: the queue is unbounded, put never waits
Put(j, items) ==
    /\ results' = results \o items
    /\ sent' = [sent EXCEPT ![j] = @ \o items]

\* semaphore.release(): the permit goes to the first waiter if there is one
\* (p is pc with the releasing task's own move made)
Release(p) ==
    IF semWaiters = <<>>
    THEN /\ semValue' = semValue + 1
         /\ semWaiters' = semWaiters
         /\ pc' = p
    ELSE /\ semValue' = semValue
         /\ semWaiters' = Tail(semWaiters)
         /\ pc' = [p EXCEPT ![Head(semWaiters)] = "woken"]

\* run_playbook up to the await of create_subprocess_exec
Start(j, p) ==
    /\ pc' = [p EXCEPT ![j] = "spawn"]
    /\ Put(j, << <<"START", j, <<>> >> >>)

\* The task of playbook j runs for the first time (tasks start in the order
\* amain created them): async with semaphore takes a permit or queues up.
Enter(j) ==
    /\ Serving
    /\ pc[j] = "init"
    /\ \A i \in Jobs : i < j => pc[i] # "init"
    /\ IF semValue > 0 /\ semWaiters = <<>>
       THEN /\ semValue' = semValue - 1
            /\ Start(j, pc)
            /\ UNCHANGED semWaiters
       ELSE /\ semWaiters' = Append(semWaiters, j)
            /\ pc' = [pc EXCEPT ![j] = "acquire"]
            /\ UNCHANGED <<semValue, results, sent>>
    /\ UNCHANGED <<maxPlaybooks, task, stdout, returncode, retval, mainPc, exitValue>>
    /\ UNCHANGED <<printerVars, sideVars>>

\* A waiter that was handed a permit runs again.
Wake(j) ==
    /\ Serving /\ AllEntered
    /\ pc[j] = "woken"
    /\ Start(j, pc)
    /\ UNCHANGED <<maxPlaybooks, semValue, semWaiters, task, stdout, returncode,
                   retval, mainPc, exitValue>>
    /\ UNCHANGED <<printerVars, sideVars>>

\* create_subprocess_exec returns the process.
SpawnOk(j) ==
    /\ Serving /\ AllEntered
    /\ pc[j] = "spawn"
    /\ pc' = [pc EXCEPT ![j] = "read"]
    /\ UNCHANGED <<maxPlaybooks, semValue, semWaiters, task, stdout, returncode,
                   retval, results, sent, mainPc, exitValue>>
    /\ UNCHANGED <<printerVars, sideVars>>

\* create_subprocess_exec raising with the permit kept (no async with)
SpawnFailKeepsPermit(j) ==
    /\ Serving /\ AllEntered
    /\ pc[j] = "spawn"
    /\ pc' = [pc EXCEPT ![j] = "raised"]
    /\ UNCHANGED <<maxPlaybooks, semValue, semWaiters, task, stdout, returncode,
                   retval, results, sent, mainPc, exitValue>>
    /\ UNCHANGED <<printerVars, sideVars>>

\* create_subprocess_exec raises (no ansible-playbook, no permission): the
\* exception leaves run_playbook and playbook_wrapper, which gives the permit back.
SpawnFail(j) ==
    /\ Serving /\ AllEntered
    /\ pc[j] = "spawn"
    /\ Release([pc EXCEPT ![j] = "raised"])
    /\ UNCHANGED <<maxPlaybooks, task, stdout, returncode, retval, results, sent,
                   mainPc, exitValue>>
    /\ UNCHANGED <<printerVars, sideVars>>

\* the lines read so far from the processes of the jobs in S
RECURSIVE LinesRead(_)
LinesRead(S) ==
    IF S = {} THEN 0
    ELSE LET j == CHOOSE k \in S : TRUE IN Len(stdout[j]) + LinesRead(S \ {j})

\* readline() returns a line.
ReadLine(j) ==
    /\ Serving /\ AllEntered
    /\ pc[j] = "read"
    /\ LinesRead(Jobs) < lineLimit
    /\ \E line \in OutputLines :
          /\ stdout' = [stdout EXCEPT ![j] = Append(@, line)]
          /\ IF line = <<NL>>
             THEN /\ Put(j, <<prepare_chunk(j, Join(task[j]) \o line)>>)
                  /\ task' = [task EXCEPT ![j] = <<>>]
             ELSE /\ task' = [task EXCEPT ![j] = Append(@, line)]
                  /\ UNCHANGED <<results, sent>>
    /\ UNCHANGED <<maxPlaybooks, semValue, semWaiters, pc, returncode, retval,
                   mainPc, exitValue>>
    /\ UNCHANGED <<printerVars, sideVars>>

\* what a process can print up to and with a blank line, as lines: one chunk
\* of every msgtype
OutputChunks ==
    { << <<NL>> >>,
      << <<"TASK", SP, "x", NL>>, <<NL>> >>,
      << <<"TASK", NL>>, <<"ok:", NL>>, <<NL>> >>,
      << <<"TASK", NL>>, <<"changed:", NL>>, <<NL>> >>,
      << <<"TASK", NL>>, <<"unreachable:", NL>>, <<NL>> >>,
      << <<"TASK", NL>>, <<"failed:", NL>>, <<NL>> >>,
      << <<"PLAY RECAP", NL>>, <<"x", NL>>, <<NL>> >> }

\* job j has put an event of this msgtype
HasPut(j, msgtype) == \E i \in 1..Len(sent[j]) : sent[j][i][1] = msgtype

\* the events of chunks put so far by all the jobs
ChunksPut ==
    Cardinality({p \in UNION {{<<k, i>> : i \in 1..Len(sent[k])} : k \in Jobs} :
                    sent[p[1]][p[2]][1] \notin {"START", "DONE"}})

\* readline() returns the lines of a whole chunk, the blank line last: the
\* turns of the loop for these lines, taken together.
ReadChunk(j) ==
    /\ Serving /\ AllEntered
    /\ pc[j] = "read"
    /\ task[j] = <<>>
    /\ ChunksPut < MaxChunks
    /\ \E lines \in OutputChunks :
          /\ stdout' = [stdout EXCEPT ![j] = @ \o lines]
          /\ Put(j, <<prepare_chunk(j, Join(lines))>>)
    /\ UNCHANGED <<maxPlaybooks, semValue, semWaiters, pc, task, returncode,
                   retval, mainPc, exitValue>>
    /\ UNCHANGED <<printerVars, sideVars>>

\* the end of the stream with the lines read since the last blank line dropped
ReadEofDropsTask(j) ==
    /\ Serving /\ AllEntered
    /\ pc[j] = "read"
    /\ pc' = [pc EXCEPT ![j] = "wait"]
    /\ UNCHANGED <<maxPlaybooks, semValue, semWaiters, task, stdout, returncode,
                   retval, results, sent, mainPc, exitValue>>
    /\ UNCHANGED <<printerVars, sideVars>>

\* readline() returns the empty string: the stream has ended.
ReadEof(j) ==
    /\ Serving /\ AllEntered
    /\ pc[j] = "read"
    /\ IF task[j] # <<>>
       THEN Put(j, <<prepare_chunk(j, Join(task[j]))>>)
       ELSE UNCHANGED <<results, sent>>
    /\ pc' = [pc EXCEPT ![j] = "wait"]
    /\ UNCHANGED <<maxPlaybooks, semValue, semWaiters, task, stdout, returncode,
                   retval, mainPc, exitValue>>
    /\ UNCHANGED <<printerVars, sideVars>>

\* the payload of DONE
DoneMsg(rc) ==
    IF rc # 0 THEN <<"Exited with error code: ">> \o Str(rc) ELSE <<"Done.">>

\* what run_playbook returns for a process that ended with rc
Returned(rc) == rc

\* process.wait() returns: DONE is put, run_playbook returns the return code
\* and playbook_wrapper gives the permit back.
Wait(j) ==
    /\ Serving /\ AllEntered
    /\ pc[j] = "wait"
    /\ \E rc \in RetCodes :
          /\ returncode' = (j :> rc) @@ returncode
          /\ Put(j, << <<"DONE", j, DoneMsg(rc)>> >>)
          /\ retval' = (j :> Returned(rc)) @@ retval
    /\ Release([pc EXCEPT ![j] = "returned"])
    /\ UNCHANGED <<maxPlaybooks, task, stdout, mainPc, exitValue>>
    /\ UNCHANGED <<printerVars, sideVars>>

(* --------------------------- show_progression -------------------------- *)
\* list.remove(x): without the first x
RECURSIVE Remove(_, _)
Remove(list, x) ==
    IF list = <<>> THEN <<>>
    ELSE IF Head(list) = x THEN Tail(list)
    ELSE <<Head(list)>> \o Remove(Tail(list), x)

InList(list, x) == \E i \in 1..Len(list) : list[i] = x

\* recaps[playbook].append(msg) with a new key going first
RECURSIVE RecapAppendNewFirst(_, _, _)
RecapAppendNewFirst(rs, playbook, msg) ==
    IF \A i \in 1..Len(rs) : rs[i][1] # playbook
    THEN << <<playbook, <<msg>> >> >> \o rs
    ELSE IF Head(rs)[1] = playbook
        THEN << <<playbook, Append(Head(rs)[2], msg)>> >> \o Tail(rs)
    ELSE <<Head(rs)>> \o RecapAppendNewFirst(Tail(rs), playbook, msg)

\* recaps[playbook].append(msg) on a defaultdict(list): a new key goes last
RECURSIVE RecapAppend(_, _, _)
RecapAppend(rs, playbook, msg) ==
    IF rs = <<>> THEN << <<playbook, <<msg>> >> >>
    ELSE IF Head(rs)[1] = playbook
        THEN << <<playbook, Append(Head(rs)[2], msg)>> >> \o Tail(rs)
    ELSE <<Head(rs)>> \o RecapAppend(Tail(rs), playbook, msg)

\* the lines written for one chunk of a recap: those without "PLAY RECAP"
RECURSIVE ChunkLines(_)
ChunkLines(lines) ==
    IF lines = <<>> THEN <<>>
    ELSE IF Contains(Head(lines), "PLAY RECAP") THEN ChunkLines(Tail(lines))
    ELSE <<Head(lines)>> \o ChunkLines(Tail(lines))

RECURSIVE RecapLines(_)
RecapLines(chunks) ==
    IF chunks = <<>> THEN <<>>
    ELSE ChunkLines(Split(Head(chunks), NL)) \o RecapLines(Tail(chunks))

\* ends[playbook] - starts[playbook] can be computed
Timed(playbook) == playbook \in Keys(starts) /\ playbook \in Keys(ends)

ReportHeader(playbook) ==
    <<"# Playbook ">> \o Playbook(playbook) \o <<", ran in ">>
        \o Str(ends[playbook] - starts[playbook]) \o <<"s">>

\* the lines the final loop writes, up to the first playbook it cannot time
RECURSIVE ReportLines(_)
ReportLines(rs) ==
    IF rs = <<>> \/ ~Timed(Head(rs)[1]) THEN <<>>
    ELSE <<ReportHeader(Head(rs)[1])>> \o RecapLines(Head(rs)[2])
             \o ReportLines(Tail(rs))

ReportRaises == \E i \in 1..Len(recaps) : ~Timed(recaps[i][1])

\* the events that erase the rest of the line and write a text there
Written == {"START", "DONE", "TASK"}
\* the text an event writes after the playbook's name
EventText(msgtype, msg) ==
    IF msgtype = "START" THEN <<"Started">>
    ELSE IF msgtype = "DONE" THEN msg
    ELSE IF msgtype = "TASK"
        THEN truncate(Split(msg, NL)[1], AvailableWidth(Columns, longest_name))
    ELSE <<>>

\* LaneText writing a text for every event
LaneTextWritesAll(old, msgtype, msg) ==
    IF msgtype \in {"START", "DONE"} THEN EventText(msgtype, msg)
    ELSE truncate(Split(msg, NL)[1], AvailableWidth(Columns, longest_name))

\* what the line the cursor is on shows after the event
LaneText(old, msgtype, msg) ==
    IF msgtype \in Written THEN EventText(msgtype, msg) ELSE old

\* playbooks.index(playbook)
Position(playbook) == playbook - 1
\* diff computed as the distance from the first line
DiffFromTop(playbook) == Position(playbook) + 1
\* how many lines the cursor goes up, and down again
Diff(playbook) == NumJobs - Position(playbook)
\* CUB: the cursor goes n places to the left, as far as the edge
CursorBack(col, n) == IF col > n THEN col - n ELSE 0

\* d[playbook] = perf_counter() never recording anything
StampNothing(d, playbook) == d
\* d[playbook] = perf_counter()
Stamp(d, playbook) == (playbook :> now) @@ d

\* the finally clause left out: the cursor stays as it was
FinallySkipped(hidden) == hidden
\* finally: ENABLE_CURSOR is written, the cursor is shown whatever it was
Finally(hidden) == FALSE

\* One turn of the loop for an event (msgtype, playbook, msg).
ConsumeEvent ==
    /\ Serving /\ AllEntered
    /\ printerPc = "running"
    /\ results # <<>>
    /\ Head(results) # Sentinel
    /\ results' = Tail(results)
    /\ LET msgtype == Head(results)[1]
           playbook == Head(results)[2]
           msg == Head(results)[3]
           timed == msgtype \in {"START", "DONE"}
           \* currently_running.remove(playbook) raises ValueError
           fails == msgtype = "DONE" /\ ~InList(currently_running, playbook)
           \* CUU and CUF: up to the playbook's line, right of its name
           row == cursorRow - Diff(playbook)
           col == cursorCol + longest_name + 2
       IN  /\ frameno' = frameno + 1
           /\ now' = IF timed /\ ~fails THEN now + 1 ELSE now
           /\ starts' = IF msgtype = "START" THEN Stamp(starts, playbook)
                        ELSE starts
           /\ currently_running' =
                 IF msgtype = "START" THEN Append(currently_running, playbook)
                 ELSE IF msgtype = "DONE" THEN Remove(currently_running, playbook)
                 ELSE currently_running
           /\ ends' = IF msgtype = "DONE" /\ ~fails THEN Stamp(ends, playbook)
                      ELSE ends
           /\ recaps' = IF msgtype \in {"RECAP", "ERROR"}
                        THEN RecapAppend(recaps, playbook, msg)
                        ELSE recaps
           /\ lanes' = IF fails THEN lanes
                       ELSE [lanes EXCEPT ![row + 1] = LaneText(@, msgtype, msg)]
           /\ cursorRow' = IF fails THEN row ELSE row + Diff(playbook)
           /\ cursorCol' =
                 IF fails THEN col
                 ELSE CursorBack(col + Len(EventText(msgtype, msg)), Columns + 1)
           /\ printerPc' = IF fails THEN "raised" ELSE "running"
           /\ cursorHidden' = IF fails THEN Finally(cursorHidden) ELSE cursorHidden
    /\ UNCHANGED report
    /\ UNCHANGED <<maxPlaybooks, semValue, semWaiters, pc, task, stdout,
                   returncode, retval, sent, mainPc, exitValue>>
    /\ UNCHANGED sideVars

\* The loop gets the item that ends the queue: the cursor is shown again and
\* the final report is written.
ConsumeSentinel ==
    /\ Serving
    /\ printerPc = "running"
    /\ results # <<>>
    /\ Head(results) = Sentinel
    /\ results' = Tail(results)
    /\ cursorHidden' = Finally(cursorHidden)
    /\ report' = ReportLines(recaps)
    /\ cursorRow' = cursorRow + 1 + Len(report')
    /\ cursorCol' = 0
    /\ printerPc' = IF ReportRaises THEN "raised" ELSE "reported"
    /\ UNCHANGED <<starts, ends, recaps, currently_running, frameno, lanes, now>>
    /\ UNCHANGED <<maxPlaybooks, semValue, semWaiters, pc, task, stdout,
                   returncode, retval, sent, mainPc, exitValue>>
    /\ UNCHANGED sideVars

(* -------------------------------- amain -------------------------------- *)
\* amain counting the playbooks that failed instead of adding the return codes
RECURSIVE AggregateCountsFailures(_)
AggregateCountsFailures(rs) ==
    IF rs = <<>> THEN 0
    ELSE (IF Head(rs) # 0 THEN 1 ELSE 0) + AggregateCountsFailures(Tail(rs))

\* what amain makes of the list gather() returns
Aggregate(rs) == SumSeq(rs)

\* gather() returning as soon as one playbook task has returned
GatherReturnFirstCompleted ==
    /\ mainPc = "gather"
    /\ \E j \in Jobs : pc[j] = "returned"
    /\ results' = Append(results, Sentinel)
    /\ mainPc' = "await_printer"
    /\ UNCHANGED <<maxPlaybooks, semValue, semWaiters, pc, task, stdout,
                   returncode, retval, sent, exitValue>>
    /\ UNCHANGED <<printerVars, sideVars>>

\* gather() returns once every playbook task has returned; amain ends the queue.
GatherReturn ==
    /\ mainPc = "gather"
    /\ \A j \in Jobs : pc[j] = "returned"
    /\ results' = Append(results, Sentinel)
    /\ mainPc' = "await_printer"
    /\ UNCHANGED <<maxPlaybooks, semValue, semWaiters, pc, task, stdout,
                   returncode, retval, sent, exitValue>>
    /\ UNCHANGED <<printerVars, sideVars>>

\* gather() passes the first exception of a playbook task on to amain, which
\* does not catch it.
GatherRaise ==
    /\ mainPc = "gather"
    /\ \E j \in Jobs : pc[j] = "raised"
    /\ mainPc' = "raised"
    /\ UNCHANGED <<maxPlaybooks, semValue, semWaiters, pc, task, stdout,
                   returncode, retval, results, sent, exitValue>>
    /\ UNCHANGED <<printerVars, sideVars>>

\* await printer_task ends: amain returns the sum, or the printer's exception.
PrinterAwaited ==
    /\ mainPc = "await_printer"
    /\ printerPc \in {"reported", "raised"}
    /\ IF printerPc = "reported"
       THEN /\ mainPc' = "returned"
            /\ exitValue' = Aggregate([j \in Jobs |-> retval[j]])
       ELSE /\ mainPc' = "raised"
            /\ UNCHANGED exitValue
    /\ UNCHANGED <<maxPlaybooks, semValue, semWaiters, pc, task, stdout,
                   returncode, retval, results, sent>>
    /\ UNCHANGED <<printerVars, sideVars>>

(* --------------------------------- main -------------------------------- *)
\* asyncio.run(amain()): once amain has raised, every task still pending is
\* cancelled.  A cancelled playbook task leaves async with, so every permit held
\* is given back and nobody is left waiting; the cancelled printer task leaves
\* its loop through finally, which shows the cursor again.
CancelAll ==
    /\ mainPc = "raised"
    /\ (\E j \in Jobs : pc[j] \notin Ended) \/ printerPc = "running"
    /\ pc' = [j \in Jobs |-> IF pc[j] \in Ended THEN pc[j] ELSE "cancelled"]
    /\ semValue' = semValue + Cardinality({j \in Jobs : pc[j] \in Holding})
    /\ semWaiters' = <<>>
    /\ IF printerPc = "running"
       THEN printerPc' = "cancelled" /\ cursorHidden' = Finally(cursorHidden)
       ELSE UNCHANGED <<printerPc, cursorHidden>>
    /\ UNCHANGED <<maxPlaybooks, task, stdout, returncode, retval, results, sent,
                   mainPc, exitValue>>
    /\ UNCHANGED <<starts, ends, recaps, currently_running, frameno, lanes,
                   cursorRow, cursorCol, now, report>>
    /\ UNCHANGED sideVars

\* the status the interpreter exits with: sys.exit(n) keeps the low byte of n,
\* an exception that nothing catches gives 1
ExitStatus == IF mainPc = "returned" THEN exitValue % 256 ELSE 1

(* ------------------------------- the program --------------------------- *)
Job(j) ==
    \/ Enter(j)
    \/ Wake(j)
    \/ SpawnOk(j)
    \/ SpawnFail(j)
    \/ ReadLine(j)
    \/ ReadEof(j)
    \/ Wait(j)

Printer == ConsumeEvent \/ ConsumeSentinel

Main == GatherReturn \/ GatherRaise \/ PrinterAwaited \/ CancelAll

Next == (\E j \in Jobs : Job(j)) \/ Printer \/ Main

Spec == Init /\ [][Next]_vars

\* the event loop runs every task that can run
FairSpec ==
    Spec /\ (\A j \in Jobs : WF_vars(Job(j))) /\ WF_vars(Printer) /\ WF_vars(Main)

(* ------------------- the printer and chunks of every kind -------------- *)
\* The program with every spawn succeeding and the output read a chunk at a time.
\* The printer sees the puts and their order only.  It is woken by a put and
\* runs before the playbook tasks run again, and a step that puts nothing
\* (the end of a spawn, the end of the output) is followed at once by the
\* task's next step.
PrinterFirst == results = <<>>
NoneBetweenPuts == \A i \in Jobs : pc[i] \notin {"spawn", "wait"}
\* a process ends with 1 when it has printed an error, with 0 when it has not
RenderRetCode(j) == IF HasPut(j, "ERROR") THEN 1 ELSE 0

RenderJob(j) ==
    \/ Enter(j)
    \/ PrinterFirst /\ NoneBetweenPuts /\ Wake(j)
    \/ PrinterFirst /\ SpawnOk(j)
    \/ PrinterFirst /\ NoneBetweenPuts /\ ReadChunk(j)
    \/ PrinterFirst /\ NoneBetweenPuts /\ ReadEof(j)
    \/ PrinterFirst /\ Wait(j) /\ returncode'[j] = RenderRetCode(j)

RenderMain == GatherReturn \/ PrinterAwaited

RenderNext == (\E j \in Jobs : RenderJob(j)) \/ Printer \/ RenderMain

RenderSpec == Init /\ [][RenderNext]_vars

(* ---------------------- the read loop of one process ------------------- *)
\* One permit: the first playbook's process is read to its end while the others
\* wait for the permit.
ReaderInit ==
    /\ EngineInit(1)
    /\ PrinterInit
    /\ ClassifierIdle
    /\ TruncateIdle
    /\ lineLimit = MaxReaderLines

ReaderJob(j) ==
    \/ Enter(j)
    \/ SpawnOk(j)
    \/ ReadLine(j)
    \/ ReadEof(j)

ReaderNext == \E j \in Jobs : ReaderJob(j)

ReaderSpec == ReaderInit /\ [][ReaderNext]_vars

(* ------------------------- prepare_chunk on its own -------------------- *)
\* every text of at most MaxChunkLen symbols
Chunks == UNION {[1..n -> Symbols] : n \in 0..MaxChunkLen}

ClassInit ==
    /\ EngineInit(1)
    /\ PrinterInit
    /\ chunkIn \in Chunks
    /\ classified = "-"
    /\ TruncateIdle
    /\ lineLimit = MaxLines

Classify ==
    /\ classified = "-"
    /\ classified' = prepare_chunk(1, chunkIn)[1]
    /\ UNCHANGED <<chunkIn, engineVars, printerVars, truncateVars, lineLimit>>

ClassNext == Classify

ClassSpec == ClassInit /\ [][ClassNext]_vars

(* --------------------------- truncate on its own ----------------------- *)
\* a symbol of a task's title
TitleSymbols == {"x", " "}
\* every string of at most MaxStringLen symbols
Strings == UNION {[1..n -> TitleSymbols] : n \in 0..MaxStringLen}
TruncInit ==
    /\ EngineInit(1)
    /\ PrinterInit
    /\ ClassifierIdle
    /\ stringIn \in Strings
    /\ columnsIn \in 0..MaxColumns
    /\ nameLenIn \in 1..MaxNameLen
    /\ truncated = <<>>
    /\ lineLimit = MaxLines

Truncate ==
    /\ truncated = <<>>
    /\ truncated' = <<truncate(stringIn, AvailableWidth(columnsIn, nameLenIn))>>
    /\ UNCHANGED <<stringIn, columnsIn, nameLenIn, engineVars, printerVars,
                   classifierVars, lineLimit>>

TruncNext == Truncate

TruncSpec == TruncInit /\ [][TruncNext]_vars

(* ------------------------------ properties ----------------------------- *)
\* job j has put an event of this msgtype on the queue
HasSent(j, msgtype) == \E i \in 1..Len(sent[j]) : sent[j][i][1] = msgtype
CountSent(j, msgtype) ==
    Cardinality({i \in 1..Len(sent[j]) : sent[j][i][1] = msgtype})
ChunkTypes == {"RECAP", "OK", "CHANGED", "ERROR", "UNREACHABLE", "TASK", "MSG"}

\* nothing is left to run: amain is over and so is every task
AtRest ==
    /\ mainPc \in {"returned", "raised"}
    /\ \A j \in Jobs : pc[j] \in Ended
    /\ printerPc # "running"

SpawnFailed(j) == pc[j] = "raised"

\* C1: in every reachable state, the jobs that have emitted START and not yet
\* DONE are at most K, the size of the gate.
C1_AtMostKBetweenStartAndDone ==
    Cardinality({j \in Jobs : HasSent(j, "START") /\ ~HasSent(j, "DONE")})
        <= maxPlaybooks

\* C2: the events of a job start with its one START and end with its one DONE,
\* the events of its chunks strictly in between: at every moment START comes
\* first and nothing follows DONE, and a job that is over has emitted both.
C2_StartFirstDoneLast ==
    \A j \in Jobs :
        LET ev == sent[j]
        IN  /\ ev # <<>> => ev[1][1] = "START"
            /\ CountSent(j, "START") <= 1
            /\ CountSent(j, "DONE") <= 1
            /\ \A i \in 1..Len(ev) :
                  /\ ev[i][1] = "DONE" => i = Len(ev)
                  /\ ev[i][1] \in ChunkTypes => 1 < i
            /\ pc[j] \in Ended =>
                  /\ Len(ev) >= 2
                  /\ ev[1][1] = "START"
                  /\ ev[Len(ev)][1] = "DONE"

\* C3: amain returns or raises only once every playbook task has finished by
\* itself: none is still pending or running, none has been cancelled.
C3_EngineEndsAfterEveryJob ==
    mainPc \in {"returned", "raised"} =>
        \A j \in Jobs : pc[j] \in {"returned", "raised"}

\* C4: when the spawn of one job has failed and the run is over, every sibling
\* has emitted its DONE and the printer has got the end of the queue and
\* printed the final report.
C4_SiblingsAndPrinterSurviveSpawnFailure ==
    (AtRest /\ \E j \in Jobs : SpawnFailed(j)) =>
        /\ \A i \in Jobs : ~SpawnFailed(i) => HasSent(i, "DONE")
        /\ printerPc = "reported"

\* the sum of the return codes of the processes of the jobs in S
RECURSIVE SumOfReturnCodes(_)
SumOfReturnCodes(S) ==
    IF S = {} THEN 0
    ELSE LET j == CHOOSE k \in S : TRUE
         IN  returncode[j] + SumOfReturnCodes(S \ {j})

\* C5: when all jobs have run and amain has returned, the value it returned is
\* the arithmetic sum of the return codes of the jobs' processes.
C5_ExitValueIsSum ==
    mainPc = "returned" =>
        /\ Keys(returncode) = Jobs
        /\ exitValue = SumOfReturnCodes(Jobs)

\* C5 witness: two processes have ended with 1 and amain has returned 2.
C5_Witness ==
    /\ mainPc = "returned"
    /\ \E i, j \in Jobs : i # j /\ returncode[i] = 1 /\ returncode[j] = 1
    /\ \A j \in Jobs : returncode[j] \in {0, 1}
    /\ exitValue = 2

\* C6: the status the program exits with is zero if and only if every job's
\* process has ended with return code zero.
C6_ZeroIffAllZero ==
    mainPc = "returned" =>
        (ExitStatus = 0 <=> \A j \in Jobs : returncode[j] = 0)

\* C7: under fair scheduling every job eventually emits its START and its DONE
\* and amain eventually returns.
C7_EveryJobRunsAndEngineReturns ==
    <>(/\ \A j \in Jobs : HasSent(j, "START") /\ HasSent(j, "DONE")
       /\ mainPc = "returned")

\* the lines of the classified chunk, trimmed and split as the rules see them
InLines == Split(Strip(chunkIn), NL)
\* the first line of the chunk as it is
InFirstLine == Split(chunkIn, NL)[1]
IsClassified == classified # "-"

\* C8 as stated: every chunk that contains "PLAY RECAP" is a RECAP, whatever
\* its number of lines.
C8_MarkerAlwaysRecap ==
    (IsClassified /\ Contains(chunkIn, "PLAY RECAP")) => classified = "RECAP"

\* C8 as amended: every chunk of at least two lines that contains "PLAY RECAP"
\* is a RECAP, whatever keywords its lines contain.
C8_MarkerRecapFromTwoLines ==
    (IsClassified /\ Len(InLines) >= 2 /\ Contains(chunkIn, "PLAY RECAP"))
        => classified = "RECAP"

\* C8 witness: a RECAP whose second line holds the keyword of another rule.
C8_Witness ==
    /\ IsClassified
    /\ Len(InLines) >= 2
    /\ Contains(chunkIn, "PLAY RECAP")
    /\ Contains(InLines[2], "ok:")
    /\ StartsWith(chunkIn, "TASK")
    /\ classified = "RECAP"

\* the rules for a chunk of two lines or more without the marker, in order:
\* (the rule matches, the kind it gives)
KeywordRules ==
    << <<Contains(InLines[2], "ok:"), "OK">>,
       <<Contains(InLines[2], "changed:"), "CHANGED">>,
       <<Contains(InLines[2], "failed:") \/ Contains(InLines[2], "fatal:"), "ERROR">>,
       <<Contains(InLines[2], "unreachable:"), "UNREACHABLE">>,
       <<StartsWith(InFirstLine, "TASK"), "TASK">>,
       <<Contains(chunkIn, "ERROR!"), "ERROR">>,
       <<TRUE, "MSG">> >>

\* C9: a chunk of at least two lines without the marker gets the kind of the
\* first rule, in the listed order, that matches; it gets exactly one kind.
C9_FirstMatchingRule ==
    (IsClassified /\ Len(InLines) >= 2 /\ ~Contains(chunkIn, "PLAY RECAP")) =>
        \E i \in 1..Len(KeywordRules) :
            /\ KeywordRules[i][1]
            /\ \A k \in 1..(i - 1) : ~KeywordRules[k][1]
            /\ classified = KeywordRules[i][2]

\* C9 witness: the second line matches two rules and the earlier one wins,
\* against a first line that starts with TASK.
C9_Witness ==
    /\ IsClassified
    /\ Len(InLines) >= 2
    /\ ~Contains(chunkIn, "PLAY RECAP")
    /\ StartsWith(chunkIn, "TASK")
    /\ Contains(InLines[2], "changed:")
    /\ Contains(InLines[2], "fatal:")
    /\ classified = "CHANGED"

\* C10: a chunk of fewer than two lines is a TASK if its first line starts with
\* "TASK", else an ERROR if it contains "ERROR!", else a MSG, and never anything
\* else, whatever keywords its line contains.
C10_SingleLineRules ==
    (IsClassified /\ Len(InLines) < 2) =>
        /\ classified \in {"TASK", "ERROR", "MSG"}
        /\ classified = "TASK" <=> StartsWith(InFirstLine, "TASK")
        /\ classified = "ERROR" <=>
              (~StartsWith(InFirstLine, "TASK") /\ Contains(chunkIn, "ERROR!"))

\* C10 witness: a single line with the keywords of rules 1 to 5 is a MSG.
C10_Witness ==
    /\ IsClassified
    /\ Len(InLines) < 2
    /\ Contains(chunkIn, "ok:")
    /\ Contains(chunkIn, "PLAY RECAP")
    /\ Contains(chunkIn, "unreachable:")
    /\ classified = "MSG"

\* what truncate was given and what it gave, when run on its own
TruncWidth == AvailableWidth(columnsIn, nameLenIn)
TruncResult == truncated[1]
\* r is s cut to w places: the first w - 1 symbols of s, then one ellipsis
CutTo(r, s, w) ==
    /\ Len(r) = w
    /\ r[w] = Ellipsis
    /\ SubSeq(r, 1, w - 1) = SubSeq(s, 1, w - 1)
    /\ \A i \in 1..(w - 1) : r[i] # Ellipsis

\* C11 as stated: for every string and every width columns - longest name - 4,
\* a string longer than the width comes out with exactly that length and one
\* ellipsis at its end, any other string comes out as it is.
C11_TruncateFitsEveryWidth ==
    truncated # <<>> =>
        IF Len(stringIn) > TruncWidth
        THEN CutTo(TruncResult, stringIn, TruncWidth)
        ELSE TruncResult = stringIn

\* C11: the same for every width of at least 1; for a width of 0 or less no
\* text has that length and ends with an ellipsis.
C11_TruncateFitsPositiveWidth ==
    (truncated # <<>> /\ TruncWidth >= 1) =>
        IF Len(stringIn) > TruncWidth
        THEN CutTo(TruncResult, stringIn, TruncWidth)
        ELSE TruncResult = stringIn

C11_Witness ==
    /\ truncated # <<>>
    /\ TruncWidth >= 2
    /\ Len(stringIn) > TruncWidth
    /\ Len(TruncResult) = TruncWidth

\* the payloads of the RECAP and ERROR events job j has put, in the order put
RECURSIVE ReportedPayloads(_)
ReportedPayloads(events) ==
    IF events = <<>> THEN <<>>
    ELSE (IF Head(events)[1] \in {"RECAP", "ERROR"} THEN <<Head(events)[3]>>
          ELSE <<>>) \o ReportedPayloads(Tail(events))
\* the lines of these payloads, one payload after the other, without the
\* lines that hold the marker (the final loop leaves them out)
RECURSIVE PayloadLines(_)
PayloadLines(payloads) ==
    IF payloads = <<>> THEN <<>>
    ELSE LET lines == Split(Head(payloads), NL)
         IN  SelectSeq(lines, LAMBDA l : ~Contains(l, "PLAY RECAP"))
                 \o PayloadLines(Tail(payloads))
\* the playbooks of the report in the order of their entries
RecapKeys == [i \in 1..Len(recaps) |-> recaps[i][1]]
\* the report for the playbooks of keys, in this order
RECURSIVE ExpectedReport(_)
ExpectedReport(keys) ==
    IF keys = <<>> THEN <<>>
    ELSE <<ReportHeader(Head(keys))>>
             \o PayloadLines(ReportedPayloads(sent[Head(keys)]))
             \o ExpectedReport(Tail(keys))
\* the printer takes an event off the queue in this step
Consumes ==
    /\ printerPc = "running"
    /\ results # <<>>
    /\ Head(results) # Sentinel
    /\ results' = Tail(results)
    /\ frameno' = frameno + 1
\* the report has been printed
Reported == printerPc = "reported"

\* the entries of the report are the RECAP and ERROR payloads of each job
C12_ReportContent ==
    Reported =>
        /\ \A j \in Jobs :
              LET payloads == ReportedPayloads(sent[j])
                  entries == {i \in 1..Len(recaps) : recaps[i][1] = j}
              IN  IF payloads = <<>> THEN entries = {}
                  ELSE /\ Cardinality(entries) = 1
                       /\ \A i \in entries : recaps[i][2] = payloads
        /\ report = ExpectedReport(RecapKeys)
\* a job gets its entry, after the entries there are, when its first RECAP or
\* ERROR event is consumed, and the entries never change places
C12_ReportOrder ==
    Consumes =>
        LET msgtype == Head(results)[1]
            playbook == Head(results)[2]
        IN  RecapKeys' =
                IF msgtype \in {"RECAP", "ERROR"}
                       /\ \A i \in 1..Len(recaps) : recaps[i][1] # playbook
                THEN Append(RecapKeys, playbook)
                ELSE RecapKeys

\* C12: the final report holds, for each job, the payloads of the job's RECAP
\* and ERROR events in the order they were put on the queue (their lines, those
\* with the marker left out) and nothing of its other events; a job without
\* such an event has no entry; the jobs come in the order in which their first
\* RECAP or ERROR event was consumed.
C12_ReportIsRecapsAndErrors == [](C12_ReportContent) /\ [][C12_ReportOrder]_vars

\* the second job's ERROR was consumed before the first job's RECAP
C12_Witness ==
    /\ Reported
    /\ Len(recaps) = 2
    /\ recaps[1][1] = 2
    /\ Head(ReportedPayloads(sent[1]))[1] = "PLAY RECAP"
    /\ Len(report) > 2

\* the printer has left its loop: by the end of the queue, by an exception or
\* by its cancellation
PrinterStopped == printerPc \in {"reported", "raised", "cancelled"}

\* C13: whichever way the printer leaves its loop (the end of the queue, an
\* exception while an event is handled, the cancellation of its task), the
\* cursor it hid at the start is shown again: it is never hidden once the
\* printer has stopped.
C13_CursorShownOnceStopped == PrinterStopped => ~cursorHidden

\* the printer was cancelled while it waited for an event
C13_Witness == printerPc = "cancelled" /\ ~cursorHidden /\ frameno > 0

\* the places of the queue that hold the item that ends it
SentinelAt == {i \in 1..Len(results) : results[i] = Sentinel}
\* the events put so far by all the jobs
EventsPut ==
    Cardinality(UNION {{<<k, i>> : i \in 1..Len(sent[k])} : k \in Jobs})

\* C14: the item that ends the queue is put only once every job has put its
\* DONE, so it is the last item of the queue; when the printer has stopped on it
\* the queue is empty and the printer has consumed every event of every job;
\* amain returns only once the printer has printed the final report.
C14_SentinelLastAndReportBeforeReturn ==
    /\ SentinelAt # {} =>
          /\ SentinelAt = {Len(results)}
          /\ \A j \in Jobs : HasSent(j, "DONE")
    /\ mainPc \in {"await_printer", "returned"} =>
          \A j \in Jobs : HasSent(j, "DONE") /\ pc[j] = "returned"
    /\ Reported => results = <<>> /\ frameno = EventsPut
    /\ mainPc = "returned" => Reported

\* amain has returned after a run in which a chunk was printed
C14_Witness ==
    /\ mainPc = "returned"
    /\ Reported
    /\ frameno > 2 * NumJobs

\* the jobs that hold a permit: inside run_playbook, or handed the permit by
\* the release of another job and about to enter run_playbook
PermitHolders == {j \in Jobs : pc[j] \in Holding}

\* C15: a job gives its permit back on every way out of run_playbook (return
\* with any return code, spawn failure, cancellation): in every reachable state
\* the free permits and the jobs holding one add up to K, and once every
\* playbook task has ended all K permits are free.
C15_PermitsConserved ==
    /\ semValue + Cardinality(PermitHolders) = maxPlaybooks
    /\ semValue >= 0
    /\ (\A j \in Jobs : pc[j] \in Ended) => semValue = maxPlaybooks

\* every task has ended, one by a failed spawn, one by its cancellation
C15_Witness ==
    /\ \A j \in Jobs : pc[j] \in Ended
    /\ \E j \in Jobs : pc[j] = "raised"
    /\ \E j \in Jobs : pc[j] = "cancelled" /\ HasSent(j, "START")
    /\ semValue = maxPlaybooks

\* the payloads of the chunk events job j has put, in the order put
ChunkPayloads(j) ==
    LET chunks == SelectSeq(sent[j], LAMBDA ev : ev[1] \in ChunkTypes)
    IN  [i \in 1..Len(chunks) |-> chunks[i][3]]
\* lines cut after each blank line: the chunks that end with a blank line, then
\* the lines that follow the last blank line
RECURSIVE CutAtBlankLines(_, _, _)
CutAtBlankLines(lines, buffer, chunks) ==
    IF lines = <<>> THEN <<chunks, buffer>>
    ELSE IF Head(lines) = <<NL>>
        THEN CutAtBlankLines(Tail(lines), <<>>, Append(chunks, buffer \o <<NL>>))
    ELSE CutAtBlankLines(Tail(lines), buffer \o Head(lines), chunks)
\* job j's reader has seen the end of its process's output
AtEof(j) == pc[j] \in {"wait", "returned"}

\* C16: whatever lines a process prints, its reader puts one chunk event for
\* each blank line read, its payload the lines read since the blank line before
\* and the blank line (the blank line alone when there are none), and at the end
\* of the output one more for the lines that follow the last blank line if and
\* only if there are any; the payloads, one after the other, are the output.
C16_ChunksAreTheOutput ==
    \A j \in Jobs :
        LET cut == CutAtBlankLines(stdout[j], <<>>, <<>>)
            blank == {i \in 1..Len(stdout[j]) : stdout[j][i] = <<NL>>}
        IN  /\ pc[j] = "read" =>
                  /\ ChunkPayloads(j) = cut[1]
                  /\ Len(ChunkPayloads(j)) = Cardinality(blank)
                  /\ Join(task[j]) = cut[2]
                  /\ Join(ChunkPayloads(j)) \o Join(task[j]) = Join(stdout[j])
            /\ AtEof(j) =>
                  /\ ChunkPayloads(j) =
                        IF cut[2] = <<>> THEN cut[1] ELSE Append(cut[1], cut[2])
                  /\ Len(ChunkPayloads(j)) =
                        Cardinality(blank) + (IF cut[2] = <<>> THEN 0 ELSE 1)
                  /\ Join(ChunkPayloads(j)) = Join(stdout[j])

\* a title, a blank line, a second blank line, an error and the end: three chunks
C16_Witness ==
    /\ AtEof(1)
    /\ stdout[1] = << <<"TASK", NL>>, <<NL>>, <<NL>>, <<"ERROR!", NL>> >>
    /\ Len(ChunkPayloads(1)) = 3

\* the cursor is where it was after the playbooks' lines were printed: at the
\* left of the line below the last playbook's
CursorAtRest == cursorRow = NumJobs /\ cursorCol = 0

\* the step of one event: only the line of the event's job may change, and
\* the cursor is back below the last line
C17_EventStep ==
    Consumes =>
        LET playbook == Head(results)[2]
        IN  /\ \A i \in Jobs : i # playbook => lanes'[i] = lanes[i]
            /\ CursorAtRest'

\* C17: for every event consumed, in whatever order the events arrive, only
\* the line at the place of the event's job among the playbooks can change, and
\* after the event the cursor is back at its place below the last line.
C17_OnlyOwnLaneAndCursorBack ==
    [](printerPc = "running" => CursorAtRest) /\ [][C17_EventStep]_vars

\* the second job's line shows its end while the first job's still shows a title
C17_Witness ==
    /\ lanes[1] = <<"TASK", SP, "x">>
    /\ lanes[2] = DoneMsg(1)
    /\ printerPc = "running"
    /\ CursorAtRest

\* the kinds of event the printer has nothing to do for
SilentTypes == {"OK", "CHANGED", "UNREACHABLE", "MSG"}
\* job j has put an event of each of these kinds and the printer has consumed it
AllConsumed(j, kinds) ==
    /\ results = <<>>
    /\ \A k \in kinds : HasSent(j, k)

\* the step of an event the printer has nothing to do for
C18_SilentStep ==
    (Consumes /\ Head(results)[1] \in SilentTypes) =>
        /\ UNCHANGED <<lanes, starts, ends, currently_running, recaps>>
        /\ UNCHANGED <<cursorHidden, cursorRow, cursorCol, report, printerPc>>

\* C18: consuming an OK, CHANGED, UNREACHABLE or MSG event leaves what the
\* printer shows and keeps as it was: no line is written, the start and end
\* times, the list of running playbooks and the texts kept for the report
\* stay the same, the cursor is shown or hidden as before and back at its place.
C18_SilentEventsChangeNothing == [][C18_SilentStep]_vars

\* the first job's OK and UNREACHABLE events have been consumed and its line
\* still shows the text of its START
C18_Witness ==
    /\ AllConsumed(1, {"START", "OK", "UNREACHABLE"})
    /\ ~HasSent(1, "DONE")
    /\ lanes[1] = <<"Started">>
    /\ printerPc = "running"

\* an event of this msgtype of job j is still in the queue
InQueue(j, msgtype) ==
    \E i \in 1..Len(results) :
        /\ results[i] # Sentinel
        /\ results[i][1] = msgtype
        /\ results[i][2] = j
\* the printer has consumed job j's event of this msgtype
Consumed(j, msgtype) == HasSent(j, msgtype) /\ ~InQueue(j, msgtype)
\* the jobs in currently_running
Running == {currently_running[i] : i \in 1..Len(currently_running)}

\* C19: currently_running holds exactly the jobs whose START the printer has
\* consumed and whose DONE it has not, each once; DONE is never handled for a
\* job that is not in it (the printer never raises); it never holds more than
\* K jobs; it is empty when the printer has consumed the end of the queue.
C19_RunningIsStartedNotDone ==
    /\ Running = {j \in Jobs : Consumed(j, "START") /\ ~Consumed(j, "DONE")}
    /\ Len(currently_running) = Cardinality(Running)
    /\ printerPc # "raised"
    /\ Len(currently_running) <= maxPlaybooks
    /\ Reported => currently_running = <<>>

\* the printer is about to print the final report, or has printed it
AtReport == Reported \/ (results # <<>> /\ Head(results) = Sentinel)

\* C20: whenever the final report is printed, every job with an entry in it has
\* a start time and an end time, the start before the end, so the time a
\* playbook ran is never computed from a time that is missing (the printer
\* never raises).
C20_ReportedJobsAreTimed ==
    /\ printerPc # "raised"
    /\ AtReport =>
          \A i \in 1..Len(recaps) :
              LET playbook == recaps[i][1]
              IN  /\ playbook \in Keys(starts)
                  /\ playbook \in Keys(ends)
                  /\ starts[playbook] < ends[playbook]

\* the report has been printed with an entry in it
C20_Witness ==
    /\ Reported
    /\ Len(recaps) >= 1
    /\ Len(report) >= 2
====
